---- MODULE Spec2Model ----
(***************************************************************************)
(* axotag: parse_tag and strip_prefix_package of src/src/lib.rs.           *)
(*                                                                         *)
(* A string is a sequence of one-character strings, so that prefixes,      *)
(* splits and the version grammar are computed character by character.     *)
(* An Option is a sequence of length 0 (None) or 1 (Some).  The catalogue  *)
(* BTreeMap<PackageIdx, &PackageInfo> is a sequence: the PackageIdx is the *)
(* position, and the map's iteration order is the order of the positions.  *)
(***************************************************************************)
EXTENDS Naturals, Sequences, FiniteSets, TLC

VARIABLES packages, call, ret

vars == <<packages, call, ret>>

None == <<>>
Some(x) == <<x>>

Ok(v) == [ok |-> TRUE, val |-> v]
Err(e) == [ok |-> FALSE, err |-> e]

----------------------------------------------------------------------------
(* str primitives used by lib.rs *)

Take(s, n) == SubSeq(s, 1, n)
Drop(s, n) == SubSeq(s, n + 1, Len(s))

starts_with(s, p) == Len(p) <= Len(s) /\ Take(s, Len(p)) = p

\* str::strip_prefix: the rest of s after p, when s starts with p
strip_prefix(s, p) == IF starts_with(s, p) THEN Some(Drop(s, Len(p))) ELSE None

\* str::rsplit_once: split at the LAST occurrence of the delimiter c
rsplit_once(s, c) ==
    IF \E i \in 1..Len(s) : s[i] = c
    THEN LET i == CHOOSE k \in 1..Len(s) :
                      s[k] = c /\ \A j \in (k + 1)..Len(s) : s[j] # c
         IN Some(<<Take(s, i - 1), Drop(s, i)>>)
    ELSE None

----------------------------------------------------------------------------
(* semver::Version and its FromStr, the parser called at lib.rs:81.        *)
(* A Version is [major, minor, patch, pre, build]; pre and build are the   *)
(* identifier strings, empty when absent.  Equality is field by field, as  *)
(* derived for semver::Version (build metadata included).  The parser's    *)
(* diagnostic is carried as an opaque value.  Numbers beyond u64 are an    *)
(* overflow error in the crate; the inputs here have at most two digits.   *)

Digits == {"0", "1", "2", "3", "4", "5", "6", "7", "8", "9"}

Letters == {"A", "B", "C", "D", "E", "F", "G", "H", "I", "J", "K", "L", "M",
            "N", "O", "P", "Q", "R", "S", "T", "U", "V", "W", "X", "Y", "Z",
            "a", "b", "c", "d", "e", "f", "g", "h", "i", "j", "k", "l", "m",
            "n", "o", "p", "q", "r", "s", "t", "u", "v", "w", "x", "y", "z"}

DigitVal == ("0" :> 0) @@ ("1" :> 1) @@ ("2" :> 2) @@ ("3" :> 3) @@ ("4" :> 4) @@
            ("5" :> 5) @@ ("6" :> 6) @@ ("7" :> 7) @@ ("8" :> 8) @@ ("9" :> 9)

ParseError == "semver::Error"

\* the number of leading characters of s that are in set
RECURSIVE LeadLen(_, _)
LeadLen(s, set) ==
    IF s # <<>> /\ s[1] \in set THEN 1 + LeadLen(Tail(s), set) ELSE 0

RECURSIVE DigitsValue(_)
DigitsValue(ds) ==
    IF ds = <<>> THEN 0
    ELSE 10 * DigitsValue(Take(ds, Len(ds) - 1)) + DigitVal[ds[Len(ds)]]

\* parse::numeric_identifier: one or more digits, no leading zero
numeric_identifier(input) ==
    LET len == LeadLen(input, Digits) IN
    IF len = 0 THEN Err(ParseError)
    ELSE IF len > 1 /\ input[1] = "0" THEN Err(ParseError)
    ELSE Ok(<<DigitsValue(Take(input, len)), Drop(input, len)>>)

\* parse::dot
dot(input) ==
    IF input # <<>> /\ input[1] = "." THEN Ok(Drop(input, 1)) ELSE Err(ParseError)

\* parse::identifier: dot-separated segments of [0-9A-Za-z-]; an empty
\* identifier is returned when the input does not start one; an empty segment
\* is an error, and so is a numeric pre-release segment with a leading zero
RECURSIVE identifier_loop(_, _, _, _)
identifier_loop(input, isPre, accumulated_len, segment_len) ==
    LET at == accumulated_len + segment_len + 1
        boundary == IF at <= Len(input) THEN Some(input[at]) ELSE None
        segment == SubSeq(input, accumulated_len + 1, accumulated_len + segment_len)
    IN  IF boundary # None /\ boundary[1] \in (Digits \cup Letters \cup {"-"})
        THEN identifier_loop(input, isPre, accumulated_len, segment_len + 1)
        ELSE IF segment_len = 0
        THEN IF accumulated_len = 0 /\ boundary # Some(".")
             THEN Ok(<<<<>>, input>>)
             ELSE Err(ParseError)
        ELSE IF /\ isPre
                /\ segment_len > 1
                /\ \A i \in 1..segment_len : segment[i] \in Digits
                /\ segment[1] = "0"
        THEN Err(ParseError)
        ELSE IF boundary = Some(".")
        THEN identifier_loop(input, isPre, accumulated_len + segment_len + 1, 0)
        ELSE Ok(<<Take(input, accumulated_len + segment_len),
                  Drop(input, accumulated_len + segment_len)>>)

identifier(input, isPre) == identifier_loop(input, isPre, 0, 0)

\* the part of Version::from_str after major.minor.patch
ParseSuffix(major, minor, patch, text) ==
    LET hasPre == text # <<>> /\ text[1] = "-"
        pre == IF hasPre THEN identifier(Drop(text, 1), TRUE) ELSE Ok(<<<<>>, text>>)
    IN  IF ~pre.ok \/ (hasPre /\ pre.val[1] = <<>>) THEN Err(ParseError)
        ELSE LET text2 == pre.val[2]
                 hasBuild == text2 # <<>> /\ text2[1] = "+"
                 build == IF hasBuild THEN identifier(Drop(text2, 1), FALSE)
                          ELSE Ok(<<<<>>, text2>>)
             IN  IF ~build.ok \/ (hasBuild /\ build.val[1] = <<>>) THEN Err(ParseError)
                 ELSE IF build.val[2] # <<>> THEN Err(ParseError)
                 ELSE Ok([major |-> major, minor |-> minor, patch |-> patch,
                          pre |-> pre.val[1], build |-> build.val[1]])

\* <Version as FromStr>::from_str
ParseVersion(text) ==
    IF text = <<>> THEN Err(ParseError)
    ELSE LET major == numeric_identifier(text) IN
    IF ~major.ok THEN Err(ParseError)
    ELSE LET d1 == dot(major.val[2]) IN
    IF ~d1.ok THEN Err(ParseError)
    ELSE LET minor == numeric_identifier(d1.val) IN
    IF ~minor.ok THEN Err(ParseError)
    ELSE LET d2 == dot(minor.val[2]) IN
    IF ~d2.ok THEN Err(ParseError)
    ELSE LET patch == numeric_identifier(d2.val) IN
    IF ~patch.ok THEN Err(ParseError)
    ELSE ParseSuffix(major.val[1], minor.val[1], patch.val[1], patch.val[2])

----------------------------------------------------------------------------
(* strip_prefix_package, lib.rs:133-149 *)

\* one run of the for loop over the catalogue, from position i on
RECURSIVE strip_prefix_package_loop(_, _, _, _)
strip_prefix_package_loop(input, pkgs, i, result) ==
    IF i > Len(pkgs) THEN result
    ELSE LET rest == strip_prefix(input, pkgs[i].name)
             next == IF rest = None THEN result
                     ELSE IF result # None /\ Len(result[1][2]) <= Len(rest[1])
                          THEN result
                          ELSE Some(<<i, rest[1]>>)
         IN  strip_prefix_package_loop(input, pkgs, i + 1, next)

\* a variant with the comparison of line 141 reversed: the shortest name wins
RECURSIVE strip_prefix_package_shortest_loop(_, _, _, _)
strip_prefix_package_shortest_loop(input, pkgs, i, result) ==
    IF i > Len(pkgs) THEN result
    ELSE LET rest == strip_prefix(input, pkgs[i].name)
             next == IF rest = None THEN result
                     ELSE IF result # None /\ Len(result[1][2]) >= Len(rest[1])
                          THEN result
                          ELSE Some(<<i, rest[1]>>)
         IN  strip_prefix_package_shortest_loop(input, pkgs, i + 1, next)

strip_prefix_package_shortest(input, pkgs) ==
    strip_prefix_package_shortest_loop(input, pkgs, 1, None)

strip_prefix_package(input, pkgs) == strip_prefix_package_loop(input, pkgs, 1, None)

----------------------------------------------------------------------------
(* parse_tag, lib.rs:33-125 *)

\* TagError variants
TagVersionParse(tag, details) ==
    [variant |-> "TagVersionParse", tag |-> tag, details |-> details]

ContradictoryTagVersion(tag, package_name, tag_version, real_version) ==
    [variant |-> "ContradictoryTagVersion", tag |-> tag, package_name |-> package_name,
     tag_version |-> tag_version, real_version |-> real_version]

NoTagMatch(tag) == [variant |-> "NoTagMatch", tag |-> tag]

PartialAnnouncementTag(tag, version, package, prerelease) ==
    [tag |-> tag, version |-> version, package |-> package, prerelease |-> prerelease]

\* a variant of the slash form without the empty-rest test of line 55: a
\* package name that is only a prefix of the component is accepted
SlashForm_prefix(tag, pkgs) ==
    LET split == rsplit_once(tag, "/") IN
    IF split # None
    THEN LET prefix == split[1][1]
             suffix == split[1][2]
             inner == rsplit_once(prefix, "/")
             maybe_package == IF inner # None THEN inner[1][2] ELSE prefix
             m == strip_prefix_package(maybe_package, pkgs)
         IN  [announcing_package |-> IF m # None THEN Some(m[1][1]) ELSE None,
              tag_suffix |-> suffix]
    ELSE [announcing_package |-> None, tag_suffix |-> tag]

\* lines 45-61: the slash form
SlashForm(tag, pkgs) ==
    LET split == rsplit_once(tag, "/") IN
    IF split # None
    THEN LET prefix == split[1][1]
             suffix == split[1][2]
             inner == rsplit_once(prefix, "/")
             maybe_package == IF inner # None THEN inner[1][2] ELSE prefix
             m == strip_prefix_package(maybe_package, pkgs)
         IN  [announcing_package |->
                  IF m # None /\ m[1][2] = <<>> THEN Some(m[1][1]) ELSE None,
              tag_suffix |-> suffix]
    ELSE [announcing_package |-> None, tag_suffix |-> tag]

\* a variant of the dash form that falls back to a shorter package name when
\* the longest matching one is not followed by a dash
RECURSIVE DashForm_fallback_loop(_, _, _, _)
DashForm_fallback_loop(input, pkgs, i, result) ==
    IF i > Len(pkgs) THEN result
    ELSE LET rest == strip_prefix(input, pkgs[i].name)
             next == IF rest = None \/ strip_prefix(rest[1], <<"-">>) = None THEN result
                     ELSE IF result # None /\ Len(result[1][2]) <= Len(rest[1])
                          THEN result
                          ELSE Some(<<i, rest[1]>>)
         IN  DashForm_fallback_loop(input, pkgs, i + 1, next)

DashForm_fallback(st, pkgs) ==
    IF st.announcing_package = None
    THEN LET m == DashForm_fallback_loop(st.tag_suffix, pkgs, 1, None) IN
         IF m # None
         THEN [announcing_package |-> Some(m[1][1]),
               tag_suffix |-> strip_prefix(m[1][2], <<"-">>)[1]]
         ELSE st
    ELSE st

\* lines 64-72: the dash form
DashForm(st, pkgs) ==
    IF st.announcing_package = None
    THEN LET m == strip_prefix_package(st.tag_suffix, pkgs) IN
         IF m # None /\ strip_prefix(m[1][2], <<"-">>) # None
         THEN [announcing_package |-> Some(m[1][1]),
               tag_suffix |-> strip_prefix(m[1][2], <<"-">>)[1]]
         ELSE st
    ELSE st

\* a variant that strips nothing
StripV_none(tag_suffix) == tag_suffix

\* lines 76-78: strip one leading v
StripV(tag_suffix) ==
    IF strip_prefix(tag_suffix, <<"v">>) # None
    THEN strip_prefix(tag_suffix, <<"v">>)[1]
    ELSE tag_suffix

\* a variant that records the unified version also for a package announcement
MatchVersion_bothSet(tag, pkgs, announcing_package, parsed) ==
    IF parsed.ok
    THEN LET version == parsed.val
             announcing_prerelease == version.pre # <<>>
         IN  IF announcing_package # None
                /\ pkgs[announcing_package[1]].version # None
                /\ pkgs[announcing_package[1]].version[1] # version
             THEN [returned |-> Some(Err(ContradictoryTagVersion(
                                   tag, pkgs[announcing_package[1]].name, version,
                                   pkgs[announcing_package[1]].version[1]))),
                   announcing_version |-> None,
                   announcing_prerelease |-> announcing_prerelease]
             ELSE [returned |-> None,
                   announcing_version |-> Some(version),
                   announcing_prerelease |-> announcing_prerelease]
    ELSE [returned |-> Some(Err(TagVersionParse(tag, parsed.err))),
          announcing_version |-> None,
          announcing_prerelease |-> FALSE]

\* a variant that compares major.minor.patch only
MatchVersion_coreOnly(tag, pkgs, announcing_package, parsed) ==
    IF parsed.ok
    THEN LET version == parsed.val
             announcing_prerelease == version.pre # <<>>
             core(v) == <<v.major, v.minor, v.patch>>
         IN  IF announcing_package # None
             THEN LET package == pkgs[announcing_package[1]] IN
                  IF package.version # None /\ core(package.version[1]) # core(version)
                  THEN [returned |-> Some(Err(ContradictoryTagVersion(
                                        tag, package.name, version, package.version[1]))),
                        announcing_version |-> None,
                        announcing_prerelease |-> announcing_prerelease]
                  ELSE [returned |-> None,
                        announcing_version |-> None,
                        announcing_prerelease |-> announcing_prerelease]
             ELSE [returned |-> None,
                   announcing_version |-> Some(version),
                   announcing_prerelease |-> announcing_prerelease]
    ELSE [returned |-> Some(Err(TagVersionParse(tag, parsed.err))),
          announcing_version |-> None,
          announcing_prerelease |-> FALSE]

\* a variant in which a failed parse does not return but falls through to the
\* no-match guard
MatchVersion_fallThrough(tag, pkgs, announcing_package, parsed) ==
    IF parsed.ok
    THEN LET version == parsed.val
             announcing_prerelease == version.pre # <<>>
         IN  IF announcing_package # None
             THEN LET package == pkgs[announcing_package[1]] IN
                  IF package.version # None /\ package.version[1] # version
                  THEN [returned |-> Some(Err(ContradictoryTagVersion(
                                        tag, package.name, version, package.version[1]))),
                        announcing_version |-> None,
                        announcing_prerelease |-> announcing_prerelease]
                  ELSE [returned |-> None,
                        announcing_version |-> None,
                        announcing_prerelease |-> announcing_prerelease]
             ELSE [returned |-> None,
                   announcing_version |-> Some(version),
                   announcing_prerelease |-> announcing_prerelease]
    ELSE [returned |-> None,
          announcing_version |-> None,
          announcing_prerelease |-> FALSE]

\* lines 81-112: the match on the parsed version.  returned is Some(error)
\* when the match returns early.
MatchVersion(tag, pkgs, announcing_package, parsed) ==
    IF parsed.ok
    THEN LET version == parsed.val
             announcing_prerelease == version.pre # <<>>
         IN  IF announcing_package # None
             THEN LET package == pkgs[announcing_package[1]] IN
                  IF package.version # None /\ package.version[1] # version
                  THEN [returned |-> Some(Err(ContradictoryTagVersion(
                                        tag, package.name, version, package.version[1]))),
                        announcing_version |-> None,
                        announcing_prerelease |-> announcing_prerelease]
                  ELSE [returned |-> None,
                        announcing_version |-> None,
                        announcing_prerelease |-> announcing_prerelease]
             ELSE [returned |-> None,
                   announcing_version |-> Some(version),
                   announcing_prerelease |-> announcing_prerelease]
    ELSE [returned |-> Some(Err(TagVersionParse(tag, parsed.err))),
          announcing_version |-> None,
          announcing_prerelease |-> FALSE]

\* a variant of the guard that looks at the unified version only
NoMatchGuard_versionOnly(announcing_package, announcing_version) ==
    announcing_version = None

\* lines 115-117: the no-match guard
NoMatchGuard(announcing_package, announcing_version) ==
    announcing_package = None /\ announcing_version = None

\* a variant that reports the working remainder, not the tag, in the errors
ParsePresentTag_suffixInError(pkgs, tag) ==
    LET st == DashForm(SlashForm(tag, pkgs), pkgs)
        m == MatchVersion(st.tag_suffix, pkgs, st.announcing_package,
                          ParseVersion(StripV(st.tag_suffix)))
    IN  IF m.returned # None THEN m.returned[1]
        ELSE IF NoMatchGuard(st.announcing_package, m.announcing_version)
        THEN Err(NoTagMatch(tag))
        ELSE Ok(PartialAnnouncementTag(Some(tag), m.announcing_version,
                                       st.announcing_package, m.announcing_prerelease))

\* lines 42-118: the body run for a present tag
ParsePresentTag(pkgs, tag) ==
    LET st == DashForm(SlashForm(tag, pkgs), pkgs)
        m == MatchVersion(tag, pkgs, st.announcing_package,
                          ParseVersion(StripV(st.tag_suffix)))
    IN  IF m.returned # None THEN m.returned[1]
        ELSE IF NoMatchGuard(st.announcing_package, m.announcing_version)
        THEN Err(NoTagMatch(tag))
        ELSE Ok(PartialAnnouncementTag(Some(tag), m.announcing_version,
                                       st.announcing_package, m.announcing_prerelease))

\* a variant that parses an absent tag as the empty tag
parse_tag_unwrapOrDefault(pkgs, tag) ==
    ParsePresentTag(pkgs, IF tag # None THEN tag[1] ELSE <<>>)

parse_tag(pkgs, tag) ==
    IF tag # None
    THEN ParsePresentTag(pkgs, tag[1])
    ELSE Ok(PartialAnnouncementTag(None, None, None, FALSE))

----------------------------------------------------------------------------
(* Inputs *)

MaxPkgs == 2

MyApp == <<"m", "y", "-", "a", "p", "p">>
MyAppHelper == <<"m", "y", "-", "a", "p", "p", "-", "h", "e", "l", "p", "e", "r">>
MyAppV1 == <<"m", "y", "-", "a", "p", "p", "-", "v", "1">>
Garbage == <<"g", "a", "r", "b", "a", "g", "e">>
NotAVersion == <<"n", "o", "t", "-", "a", "-", "v", "e", "r", "s", "i", "o", "n">>
Release == <<"r", "e", "l", "e", "a", "s", "e">>

V100Text == <<"1", ".", "0", ".", "0">>
V200Text == <<"2", ".", "0", ".", "0">>

V100 == [major |-> 1, minor |-> 0, patch |-> 0, pre |-> <<>>, build |-> <<>>]
V200 == [major |-> 2, minor |-> 0, patch |-> 0, pre |-> <<>>, build |-> <<>>]

\* version texts the parser accepts
ValidVersionTexts ==
    { V100Text, V200Text,
      <<"0", ".", "1", ".", "1", "0">>,
      <<"1", ".", "0", ".", "0", "-", "b", "e", "t", "a", ".", "1">>,
      <<"1", ".", "0", ".", "0", "+", "b", "5">>,
      <<"1", ".", "0", ".", "0", "-", "r", "c", ".", "1", "+", "b", "-", "5">>,
      <<"1", ".", "2", ".", "3", "-", "0">> }

\* version texts the parser rejects
InvalidVersionTexts ==
    { <<>>,
      <<"1", ".", "0">>,
      <<"0", "1", ".", "0", ".", "0">>,
      <<"1", ".", "0", ".", "0", "-">>,
      <<"1", ".", "0", ".", "0", "-", "0", "1">>,
      <<"1", ".", "0", ".", "0", ".", "0">>,
      <<".", "0", ".", "0">>,
      <<"1", ".", "0", ".", "0", "+">>,
      <<"1", ".", "0", ".", "0", "-", "a", ".", ".", "b">>,
      <<"1", ".", "0", ".", "0", " ">>,
      NotAVersion, Garbage }

PackageInfos ==
    { [name |-> MyApp, version |-> None],
      [name |-> MyApp, version |-> Some(V100)],
      [name |-> MyAppHelper, version |-> None],
      [name |-> MyAppHelper, version |-> Some(V200)],
      [name |-> MyAppV1, version |-> None],
      [name |-> <<>>, version |-> None] }

Catalogues == UNION { [1..n -> PackageInfos] : n \in 0..MaxPkgs }

Slash == <<"/">>

\* what stands before the last path component
Leads ==
    { <<>>,
      MyApp \o Slash,
      MyAppHelper \o Slash,
      Release \o Slash,
      Slash,
      Release \o Slash \o MyApp \o Slash,
      MyApp \o Slash \o Release \o Slash }

Heads == { <<>>, MyApp, MyAppHelper, MyAppV1, Garbage }

Seps == { <<>>, <<"-">> }

Vs == { <<>>, <<"v">> }

CoreTexts == { V100Text, V200Text, <<".", "0", ".", "0">> }

\* the inputs of strip_prefix_package
Inputs ==
    { h \o s \o v \o t : h \in Heads, s \in Seps, v \in Vs, t \in CoreTexts }

TagTexts ==
    { l \o i : l \in Leads, i \in Inputs }
    \cup { h \o v \o t : h \in {<<>>, MyApp \o <<"-">>, MyApp \o Slash},
                         v \in Vs \cup {<<"v", "v">>},
                         t \in ValidVersionTexts \cup InvalidVersionTexts }

Tags == { None } \cup { Some(t) : t \in TagTexts }

----------------------------------------------------------------------------
(* The state machine: the catalogue is supplied by the caller; an action   *)
(* is one call of a function of the crate on it, with the argument and the *)
(* returned value recorded.  The functions keep no state, so a behaviour   *)
(* is a single call.                                                       *)

Init ==
    /\ packages \in Catalogues
    /\ call = None
    /\ ret = None

ParseTag ==
    \E tag \in Tags :
        /\ call = None
        /\ call' = Some([fn |-> "parse_tag", tag |-> tag])
        /\ ret' = Some(parse_tag(packages, tag))
        /\ UNCHANGED packages

StripPrefixPackage ==
    \E input \in Inputs :
        /\ call = None
        /\ call' = Some([fn |-> "strip_prefix_package", input |-> input])
        /\ ret' = Some(strip_prefix_package(input, packages))
        /\ UNCHANGED packages

Next == ParseTag \/ StripPrefixPackage

Spec == Init /\ [][Next]_vars

----------------------------------------------------------------------------
(* What the properties are stated with: the call, its result, and the      *)
(* reading of a tag (path components, package names, remainder) written    *)
(* directly from positions in the text.                                    *)

CalledParseTag == call # None /\ call[1].fn = "parse_tag"
CalledStripPrefixPackage == call # None /\ call[1].fn = "strip_prefix_package"
TagPresent == CalledParseTag /\ call[1].tag # None
TagText == call[1].tag[1]
Result == ret[1]
Failed(variant) == ~Result.ok /\ Result.err.variant = variant

IsPrefixOf(p, s) == Len(p) <= Len(s) /\ \A k \in 1..Len(p) : p[k] = s[k]
From(s, k) == SubSeq(s, k, Len(s))
Greatest(S) == CHOOSE x \in S : \A y \in S : y <= x

PackageNames == { packages[i].name : i \in DOMAIN packages }

\* among packages of one name, the first in catalogue order
FirstNamed(n) ==
    CHOOSE i \in DOMAIN packages :
        packages[i].name = n /\ \A j \in 1..(i - 1) : packages[j].name # n

SlashPositions(t) == { k \in 1..Len(t) : t[k] = "/" }
HasSlash(t) == SlashPositions(t) # {}
LastSlash(t) == Greatest(SlashPositions(t))

\* the text after the last slash, or the whole tag
PathSuffix(t) == IF HasSlash(t) THEN From(t, LastSlash(t) + 1) ELSE t

\* the text between the last two slashes, or all before the only slash
PathCandidate(t) ==
    LET earlier == { k \in SlashPositions(t) : k < LastSlash(t) }
        first == IF earlier = {} THEN 1 ELSE Greatest(earlier) + 1
    IN  SubSeq(t, first, LastSlash(t) - 1)

SlashAnnounces(t) == HasSlash(t) /\ PathCandidate(t) \in PackageNames

\* the package names that prefix s and are not shorter than another that does
LongestPrefixNames(s) ==
    { n \in PackageNames :
        IsPrefixOf(n, s) /\ \A m \in PackageNames : IsPrefixOf(m, s) => Len(m) <= Len(n) }

DashFollows(n, s) == Len(n) < Len(s) /\ s[Len(n) + 1] = "-"

DashAnnounces(t) ==
    ~SlashAnnounces(t) /\ \E n \in LongestPrefixNames(PathSuffix(t)) : DashFollows(n, PathSuffix(t))

DashName(t) == CHOOSE n \in LongestPrefixNames(PathSuffix(t)) : TRUE

Announces(t) == SlashAnnounces(t) \/ DashAnnounces(t)
AnnouncedName(t) == IF SlashAnnounces(t) THEN PathCandidate(t) ELSE DashName(t)

WithoutOneV(r) == IF r # <<>> /\ r[1] = "v" THEN From(r, 2) ELSE r

\* the text handed to the version parser
VersionText(t) ==
    WithoutOneV(IF DashAnnounces(t) THEN From(PathSuffix(t), Len(DashName(t)) + 2)
                ELSE PathSuffix(t))

\* Display of a version: major.minor.patch[-pre][+build]
DigitChar(d) == <<"0", "1", "2", "3", "4", "5", "6", "7", "8", "9">>[d + 1]

RECURSIVE NatText(_)
NatText(n) == IF n < 10 THEN <<DigitChar(n)>> ELSE NatText(n \div 10) \o <<DigitChar(n % 10)>>

FormatVersion(v) ==
    NatText(v.major) \o <<".">> \o NatText(v.minor) \o <<".">> \o NatText(v.patch)
    \o (IF v.pre # <<>> THEN <<"-">> \o v.pre ELSE <<>>)
    \o (IF v.build # <<>> THEN <<"+">> \o v.build ELSE <<>>)

\* a version text has a pre-release part iff a '-' stands before any '+'
HasPreReleaseText(t) ==
    \E k \in 1..Len(t) : t[k] = "-" /\ \A j \in 1..(k - 1) : t[j] # "+"

DashV200 == <<"-", "v", "2", ".", "0", ".", "0">>
MyAppDashV100 == MyApp \o <<"-", "v">> \o V100Text
MyAppDashV200 == MyApp \o <<"-", "v">> \o V200Text
ReleaseMyAppV100 == Release \o Slash \o MyApp \o Slash \o <<"v">> \o V100Text

----------------------------------------------------------------------------
(* Properties *)

\* C1: whenever parse_tag returns Ok for a present tag, exactly one of
\* result.package and result.version is set; for an absent tag both are unset.
C1_ExactlyOneOfPackageAndVersion ==
    (CalledParseTag /\ Result.ok) =>
        IF call[1].tag # None
        THEN (Result.val.package = None) # (Result.val.version = None)
        ELSE Result.val.package = None /\ Result.val.version = None

C1_Witness ==
    /\ TagPresent /\ Result.ok
    /\ Result.val.package # None /\ Result.val.version = None
    /\ packages[Result.val.package[1]].version # None

\* C2: for every catalogue, parse_tag with an absent tag returns Ok with the
\* all-default result (tag, version, package None, prerelease false), whatever
\* the catalogue holds.
C2_AbsentTagDefault ==
    (CalledParseTag /\ call[1].tag = None) =>
        Result = [ok |-> TRUE,
                  val |-> [tag |-> None, version |-> None, package |-> None,
                           prerelease |-> FALSE]]

C2_Witness == CalledParseTag /\ call[1].tag = None /\ packages # <<>> /\ Result.ok

\* C3: strip_prefix_package returns None iff no package name is a prefix of
\* the input; otherwise a package whose name is a prefix and no matching name
\* is strictly longer, with exactly the input minus that name.  With names
\* {my-app, my-app-helper} and input my-app-helper-v2.0.0 it is my-app-helper
\* and -v2.0.0, in either catalogue order.
C3_LongestPrefixWins ==
    CalledStripPrefixPackage =>
        LET input == call[1].input
            matching == { i \in DOMAIN packages : IsPrefixOf(packages[i].name, input) }
        IN  /\ (Result = None) <=> (matching = {})
            /\ Result # None =>
                  /\ Result[1][1] \in matching
                  /\ \A j \in matching :
                         Len(packages[j].name) <= Len(packages[Result[1][1]].name)
                  /\ packages[Result[1][1]].name \o Result[1][2] = input
            /\ (input = MyAppHelper \o DashV200 /\ PackageNames = {MyApp, MyAppHelper}) =>
                  /\ Result # None
                  /\ packages[Result[1][1]].name = MyAppHelper
                  /\ Result[1][2] = DashV200

C3_Witness ==
    /\ CalledStripPrefixPackage
    /\ call[1].input = MyAppHelper \o DashV200
    /\ Len(packages) = 2
    /\ packages[1].name = MyAppHelper /\ packages[2].name = MyApp
    /\ Result = Some(<<1, DashV200>>)

\* C4: when an announcing package was set (slash or dash form) and the
\* remainder parses as V, parse_tag returns ContradictoryTagVersion (tag,
\* package name, tag_version V, real_version the recorded one) iff the package
\* has a recorded version different from V, and otherwise Ok with that package
\* and no version.  my-app recorded 1.0.0: my-app-v1.0.0 succeeds,
\* my-app-v2.0.0 fails with tag_version 2.0.0 and real_version 1.0.0.
C4_ContradictionIffRecordedDiffers ==
    /\ (TagPresent /\ Announces(TagText) /\ ParseVersion(VersionText(TagText)).ok) =>
          LET V == ParseVersion(VersionText(TagText)).val
              p == FirstNamed(AnnouncedName(TagText))
              recorded == packages[p].version
          IN  IF recorded # None /\ recorded[1] # V
              THEN Result = [ok |-> FALSE,
                             err |-> [variant |-> "ContradictoryTagVersion",
                                      tag |-> TagText,
                                      package_name |-> packages[p].name,
                                      tag_version |-> V,
                                      real_version |-> recorded[1]]]
              ELSE /\ Result.ok
                   /\ Result.val.package = Some(p)
                   /\ Result.val.version = None
    /\ (TagPresent /\ packages = <<[name |-> MyApp, version |-> Some(V100)]>>) =>
          /\ TagText = MyAppDashV100 => Result.ok /\ Result.val.package = Some(1)
          /\ TagText = MyAppDashV200 =>
                /\ Failed("ContradictoryTagVersion")
                /\ Result.err.tag_version = V200
                /\ Result.err.real_version = V100

C4_Witness ==
    /\ TagPresent
    /\ TagText = MyAppDashV200
    /\ packages = <<[name |-> MyApp, version |-> Some(V100)]>>
    /\ Failed("ContradictoryTagVersion")

\* C5: for every present tag, if the remainder left after slash-splitting,
\* dash-form stripping and stripping one leading v is not a valid version,
\* parse_tag returns TagVersionParse carrying the original, complete tag,
\* whether or not an announcing package had been identified.  not-a-version
\* with an empty catalogue yields TagVersionParse.
C5_InvalidRemainderIsTagVersionParse ==
    /\ (TagPresent /\ ~ParseVersion(VersionText(TagText)).ok) =>
          Failed("TagVersionParse") /\ Result.err.tag = TagText
    /\ (TagPresent /\ TagText = NotAVersion /\ packages = <<>>) =>
          Failed("TagVersionParse") /\ Result.err.tag = NotAVersion

C5_Witness ==
    /\ TagPresent
    /\ Announces(TagText)
    /\ VersionText(TagText) # TagText
    /\ Failed("TagVersionParse") /\ Result.err.tag = TagText

\* C6: for every valid version V and an empty catalogue, the tag "v" V gives
\* Ok with version = V, package None, tag echoing the input, and prerelease
\* true iff V has a non-empty pre-release component.
C6_BareVersionIsUnified ==
    (/\ TagPresent /\ packages = <<>>
     /\ TagText # <<>> /\ TagText[1] = "v" /\ ParseVersion(From(TagText, 2)).ok) =>
        /\ Result.ok
        /\ Result.val.tag = Some(TagText)
        /\ Result.val.package = None
        /\ Result.val.version # None
        /\ FormatVersion(Result.val.version[1]) = From(TagText, 2)
        /\ Result.val.prerelease = HasPreReleaseText(From(TagText, 2))

C6_Witness ==
    /\ TagPresent /\ packages = <<>>
    /\ TagText = <<"v", "1", ".", "0", ".", "0", "-", "r", "c", ".", "1", "+", "b", "-", "5">>
    /\ Result.ok /\ Result.val.prerelease

\* C7 as stated: the tag "garbage", matching neither form, makes parse_tag
\* fail with NoTagMatch carrying the tag.
C7_GarbageIsNoTagMatch ==
    (TagPresent /\ TagText = Garbage) =>
        Failed("NoTagMatch") /\ Result.err.tag = Garbage

\* C7 as amended: a present tag such as "garbage" that matches neither a
\* package-prefixed form nor a bare-version form makes parse_tag fail with
\* TagVersionParse carrying the original tag.
C7_NoFormIsTagVersionParse ==
    /\ (TagPresent /\ TagText = Garbage) =>
          Result = [ok |-> FALSE,
                    err |-> [variant |-> "TagVersionParse", tag |-> Garbage,
                             details |-> ParseError]]
    /\ (TagPresent /\ ~Announces(TagText) /\ ~ParseVersion(VersionText(TagText)).ok) =>
          Failed("TagVersionParse") /\ Result.err.tag = TagText

C7_Witness ==
    /\ TagPresent /\ TagText = Garbage /\ packages # <<>>
    /\ Failed("TagVersionParse")

\* C8: for a tag with '/', the slash form sets the announcing package iff a
\* package name equals the candidate (the text between the last two '/', or
\* before the only one) exactly; then the dash form is not attempted and the
\* version is parsed from the suffix minus one leading v; otherwise the dash
\* form runs on the suffix only.  release/my-app/v1.0.0 with my-app in the
\* catalogue yields package my-app against version 1.0.0.
C8_SlashForm ==
    /\ (TagPresent /\ HasSlash(TagText)) =>
          LET suffix == PathSuffix(TagText)
              cand == PathCandidate(TagText)
              longest == LongestPrefixNames(suffix)
              dash == cand \notin PackageNames /\ \E n \in longest : DashFollows(n, suffix)
              name == IF cand \in PackageNames THEN cand ELSE CHOOSE n \in longest : TRUE
              rem == IF dash THEN From(suffix, Len(name) + 2) ELSE suffix
              pv == ParseVersion(WithoutOneV(rem))
          IN  IF ~pv.ok THEN Failed("TagVersionParse")
              ELSE IF cand \in PackageNames \/ dash
              THEN \/ /\ Result.ok
                      /\ Result.val.package = Some(FirstNamed(name))
                      /\ Result.val.version = None
                   \/ /\ Failed("ContradictoryTagVersion")
                      /\ Result.err.package_name = name
                      /\ Result.err.tag_version = pv.val
              ELSE /\ Result.ok
                   /\ Result.val.package = None
                   /\ Result.val.version = Some(pv.val)
    /\ (TagPresent /\ TagText = ReleaseMyAppV100 /\ MyApp \in PackageNames) =>
          \/ Result.ok /\ packages[Result.val.package[1]].name = MyApp
          \/ /\ Failed("ContradictoryTagVersion")
             /\ Result.err.package_name = MyApp
             /\ Result.err.tag_version = V100

C8_Witness ==
    /\ TagPresent /\ TagText = ReleaseMyAppV100
    /\ packages = <<[name |-> MyAppHelper, version |-> None],
                    [name |-> MyApp, version |-> Some(V100)]>>
    /\ Result.ok /\ Result.val.package = Some(2)

\* C9: parse_tag never returns NoTagMatch: every failure is TagVersionParse
\* or ContradictoryTagVersion, and a success has the package or the version set.
C9_NeverNoTagMatch ==
    CalledParseTag =>
        /\ ~Failed("NoTagMatch")
        /\ ~Result.ok => Result.err.variant \in {"TagVersionParse", "ContradictoryTagVersion"}

C9_Witness ==
    /\ TagPresent /\ Result.ok
    /\ Result.val.package # None /\ Result.val.version = None
    /\ packages[Result.val.package[1]].version = None

\* C10: the dash form considers only the longest package name that prefixes
\* the working remainder.  If that name is not followed by '-', no package is
\* set even when a shorter name is followed by '-', and the remainder goes to
\* the version parser whole; a package the dash form sets is the longest-named
\* one.  Names {my-app, my-app-v1} and tag my-app-v1.0.0 give TagVersionParse.
C10_DashFormLongestOnly ==
    /\ (TagPresent /\ ~SlashAnnounces(TagText)) =>
          LET suffix == PathSuffix(TagText)
              longest == LongestPrefixNames(suffix)
              pv == ParseVersion(WithoutOneV(suffix))
          IN  /\ (longest # {} /\ \A n \in longest : ~DashFollows(n, suffix)) =>
                    IF pv.ok
                    THEN Result.ok /\ Result.val.package = None
                         /\ Result.val.version = Some(pv.val)
                    ELSE Failed("TagVersionParse")
              /\ (Result.ok /\ Result.val.package # None) =>
                    /\ packages[Result.val.package[1]].name \in longest
                    /\ DashFollows(packages[Result.val.package[1]].name, suffix)
    /\ (TagPresent /\ TagText = MyAppDashV100 /\ PackageNames = {MyApp, MyAppV1}) =>
          Failed("TagVersionParse") /\ Result.err.tag = MyAppDashV100

C10_Witness ==
    /\ TagPresent /\ TagText = MyAppDashV100
    /\ Len(packages) = 2
    /\ packages[1].name = MyAppV1 /\ packages[2].name = MyApp
    /\ Failed("TagVersionParse")

====
